---- MODULE Spec2Model ----
(***************************************************************************)
(* The form page of src/components/App/index.tsx: a zod schema bound to a  *)
(* react-hook-form form with a field array of technologies, whose submit   *)
(* handler uploads the avatar and then shows the validated record as JSON. *)
(*                                                                         *)
(* Texts typed by the user are sequences of one-character strings, so that *)
(* trim, split, toLowerCase, endsWith and the length checks are computed   *)
(* character by character.  Messages and field names are plain strings.    *)
(***************************************************************************)
EXTENDS Integers, Sequences, FiniteSets, TLC

VARIABLES
    avatar,           \* FileList of the file input (line 102): <<>> or <<file>>
    name,             \* text of the name input (line 115)
    email,            \* text of the email input (line 127)
    password,         \* text of the password input (line 139)
    confirmPassword,  \* text of the confirmPassword input (line 153)
    techs,            \* field array (line 77): sequence of [title, knowledge] texts
    errors,           \* formState.errors (line 71): path -> message
    output,           \* useState("") (line 66): <<>> is "", <<j>> is the JSON text j
    pending,          \* upload calls awaited by createUser (line 87), in call order
    stored,           \* object keys held by the bucket "forms-zod" (line 88)
    uncaught          \* an exception escaped handleSubmit(createUser) (line 97)

form == <<avatar, name, email, password, confirmPassword, techs>>
vars == <<avatar, name, email, password, confirmPassword, techs,
          errors, output, pending, stored, uncaught>>

----------------------------------------------------------------------------
(* Bounds of the model *)

MaxTechs == 2      \* rows the field array may hold
MaxPending == 2    \* upload calls in flight at once

----------------------------------------------------------------------------
(* Texts *)

Lowers == {"a", "b", "c", "d", "e", "f", "g", "i", "l", "m", "o", "s", "t"}
Uppers == {"A", "B", "C", "G", "I", "L", "M", "O"}
Letters == Lowers \cup Uppers
Digits == {"0", "1", "2", "3", "4", "5", "6", "7", "8", "9"}

LowerOf == ("A" :> "a") @@ ("B" :> "b") @@ ("C" :> "c") @@ ("G" :> "g") @@
           ("I" :> "i") @@ ("L" :> "l") @@ ("M" :> "m") @@ ("O" :> "o")
UpperOf == ("a" :> "A") @@ ("b" :> "B") @@ ("c" :> "C") @@ ("g" :> "G") @@
           ("i" :> "I") @@ ("l" :> "L") @@ ("m" :> "M") @@ ("o" :> "O") @@
           ("d" :> "D") @@ ("e" :> "E") @@ ("f" :> "F") @@ ("s" :> "S") @@
           ("t" :> "T")

toLowerCase(s) == [i \in 1..Len(s) |-> IF s[i] \in DOMAIN LowerOf THEN LowerOf[s[i]] ELSE s[i]]
toLocaleUpperCase(s) == [i \in 1..Len(s) |-> IF s[i] \in DOMAIN UpperOf THEN UpperOf[s[i]] ELSE s[i]]

endsWith(s, suffix) ==
    /\ Len(s) >= Len(suffix)
    /\ SubSeq(s, Len(s) - Len(suffix) + 1, Len(s)) = suffix

substring(s, from) == SubSeq(s, from + 1, Len(s))

RECURSIVE trimStart(_)
trimStart(s) == IF s # <<>> /\ Head(s) = " " THEN trimStart(Tail(s)) ELSE s

RECURSIVE trimEnd(_)
trimEnd(s) == IF s # <<>> /\ s[Len(s)] = " " THEN trimEnd(SubSeq(s, 1, Len(s) - 1)) ELSE s

trim(s) == trimEnd(trimStart(s))

\* String.prototype.split(" "): the pieces between the separators, empty pieces kept
RECURSIVE split(_)
split(s) ==
    IF \A i \in 1..Len(s) : s[i] # " "
    THEN <<s>>
    ELSE LET k == CHOOSE i \in 1..Len(s) : s[i] = " " /\ \A j \in 1..(i - 1) : s[j] # " "
         IN  <<SubSeq(s, 1, k - 1)>> \o split(SubSeq(s, k + 1, Len(s)))

RECURSIVE join(_)
join(words) ==
    IF words = <<>> THEN <<>>
    ELSE IF Len(words) = 1 THEN words[1]
    ELSE words[1] \o <<" ">> \o join(Tail(words))

\* Number(text) of a number input's text: "" is 0, digits are their decimal value
RECURSIVE Number(_)
Number(s) ==
    IF s = <<>> THEN 0
    ELSE 10 * Number(SubSeq(s, 1, Len(s) - 1))
         + (CHOOSE d \in 0..9 : ToString(d) = s[Len(s)])

----------------------------------------------------------------------------
(* createUserFormSchema *)

FIVE_MB == 5 * 1024 * 1024

Issue(path, message) == [path |-> path, message |-> message]

Parsed(issues, value) == [threw |-> FALSE, issues |-> issues, value |-> value]
TypeError(value) == [threw |-> TRUE, issues |-> <<>>, value |-> value]

\* FileList.item(index): <<>> stands for null
item(list, index) == IF index + 1 <= Len(list) THEN <<list[index + 1]>> ELSE <<>>

\* avatar: instanceof(FileList), transform to item(0)!, refine on file!.size
avatarSchema(list) ==
    LET file == item(list, 0)
    IN  IF file = <<>>
        THEN TypeError(file)
        ELSE IF file[1].size <= FIVE_MB
             THEN Parsed(<<>>, file[1])
             ELSE Parsed(<<Issue(<<"avatar">>, "O arquivo precisa ter no máximo 5 megabytes")>>, file[1])

\* the callback of name's transform: word[0] of an empty word is undefined
capitalize(word) == toLocaleUpperCase(<<word[1]>>) \o substring(word, 1)

\* name: string, nonempty, transform (run only when the checks before it passed)
nameSchema(text) ==
    IF Len(text) < 1
    THEN Parsed(<<Issue(<<"name">>, "O nome é obrigatório")>>, text)
    ELSE LET words == split(trim(text))
         IN  IF \E i \in 1..Len(words) : words[i] = <<>>
             THEN TypeError(text)
             ELSE Parsed(<<>>, join([i \in 1..Len(words) |-> capitalize(words[i])]))

\* z.string().email(): local@label.(label.)*tld over the model's alphabet
LocalPart(l) ==
    /\ Len(l) >= 1
    /\ \A i \in 1..Len(l) : l[i] \in Letters \cup Digits \cup {"."}
    /\ l[Len(l)] # "."
    /\ l[1] # "."
    /\ \A i \in 1..(Len(l) - 1) : ~(l[i] = "." /\ l[i + 1] = ".")

DomainPart(d) ==
    /\ Len(d) >= 4
    /\ \A i \in 1..Len(d) : d[i] \in Letters \cup Digits \cup {"."}
    /\ d[1] # "."
    /\ \A i \in 1..(Len(d) - 1) : ~(d[i] = "." /\ d[i + 1] = ".")
    /\ \E i \in 1..Len(d) : d[i] = "."
    /\ d[Len(d)] \in Letters
    /\ d[Len(d) - 1] \in Letters

isEmail(s) ==
    \E at \in 1..Len(s) :
        /\ s[at] = "@"
        /\ LocalPart(SubSeq(s, 1, at - 1))
        /\ DomainPart(SubSeq(s, at + 1, Len(s)))

GMAIL == <<"@", "g", "m", "a", "i", "l", ".", "c", "o", "m">>

\* email: string, nonempty, email, toLowerCase, refine endsWith
emailSchema(text) ==
    LET lowered == toLowerCase(text)
        required == IF Len(text) < 1
                    THEN <<Issue(<<"email">>, "O e-mail é obrigatório")>> ELSE <<>>
        format   == IF ~isEmail(text)
                    THEN <<Issue(<<"email">>, "Formato de e-mail inválido")>> ELSE <<>>
        google   == IF ~endsWith(lowered, GMAIL)
                    THEN <<Issue(<<"email">>, "O e-mail precisa ser do Google")>> ELSE <<>>
    IN  Parsed(required \o format \o google, lowered)

MIN_PASSWORD == 6

passwordSchema(text) ==
    IF Len(text) < MIN_PASSWORD
    THEN Parsed(<<Issue(<<"password">>, "A senha precisa de no mínimo 6 caracteres")>>, text)
    ELSE Parsed(<<>>, text)

confirmPasswordSchema(text) == Parsed(<<>>, text)

MIN_TECHS == 2

RECURSIVE titleIssues(_, _)
titleIssues(list, i) ==
    IF i > Len(list) THEN <<>>
    ELSE (IF Len(list[i].title) < 1
          THEN <<Issue(<<"techs", i - 1, "title">>, "O título é obrigatório")>>
          ELSE <<>>) \o titleIssues(list, i + 1)

\* techs: array of {title nonempty, knowledge coerced to a number}, min(2)
techsSchema(list) ==
    LET tooSmall == IF Len(list) < MIN_TECHS
                    THEN <<Issue(<<"techs">>, "Insira pelo menos 2 tecnologias")>> ELSE <<>>
    IN  Parsed(tooSmall \o titleIssues(list, 1),
               [i \in 1..Len(list) |->
                   [title |-> list[i].title, knowledge |-> Number(list[i].knowledge)]])

\* the superRefine callback of the object
superRefine(data) ==
    IF data.confirmPassword # data.password
    THEN <<Issue(<<"confirmPassword">>, "As senhas não são idênticas")>>
    ELSE <<>>

\* createUserFormSchema applied to the form values
createUserFormSchema(values) ==
    LET a == avatarSchema(values.avatar)
        n == nameSchema(values.name)
        e == emailSchema(values.email)
        p == passwordSchema(values.password)
        c == confirmPasswordSchema(values.confirmPassword)
        t == techsSchema(values.techs)
        data == [avatar |-> a.value, name |-> n.value, email |-> e.value,
                 password |-> p.value, confirmPassword |-> c.value, techs |-> t.value]
    IN  IF a.threw \/ n.threw \/ e.threw \/ p.threw \/ c.threw \/ t.threw
        THEN TypeError(values)
        ELSE Parsed(a.issues \o n.issues \o e.issues \o p.issues \o c.issues \o t.issues
                        \o superRefine(data),
                    data)

\* zodResolver: the first issue of each path becomes that path's error;
\* an exception that is no ZodError is thrown on
zodResolver(values) ==
    LET r == createUserFormSchema(values)
        paths == {r.issues[i].path : i \in 1..Len(r.issues)}
        first(p) == CHOOSE i \in 1..Len(r.issues) :
                        /\ r.issues[i].path = p
                        /\ \A j \in 1..(i - 1) : r.issues[j].path # p
    IN  IF r.threw THEN [kind |-> "throw"]
        ELSE IF r.issues = <<>> THEN [kind |-> "valid", values |-> r.value]
        ELSE [kind |-> "invalid", errors |-> [p \in paths |-> r.issues[first(p)].message]]

----------------------------------------------------------------------------
(* What the user may select and type *)

FILE_OK  == [name |-> "a.png", size |-> FIVE_MB]
FILE_BIG == [name |-> "b.png", size |-> FIVE_MB + 1]

AvatarTyped == {<<FILE_OK>>}
NameTyped == {<<"a", " ", "b">>}
EmailTyped == {<<"A", "@", "G", "M", "A", "I", "L", ".", "C", "O", "M">>}
PasswordTyped == {<<"a", "b", "c", "d", "e", "f">>}
TitleTyped == {<<"t", "s">>}
KnowledgeTyped == {<<"7">>}

----------------------------------------------------------------------------
(* The App component *)

Init ==
    /\ avatar = <<>>
    /\ name = <<>>
    /\ email = <<>>
    /\ password = <<>>
    /\ confirmPassword = <<>>
    /\ techs = <<>>
    /\ errors = <<>>
    /\ output = <<>>
    /\ pending = <<>>
    /\ stored = {}
    /\ uncaught = FALSE

\* the inputs registered with the form
ChangeAvatar ==
    /\ \E list \in AvatarTyped : avatar' = list
    /\ UNCHANGED <<name, email, password, confirmPassword, techs,
                   errors, output, pending, stored, uncaught>>

ChangeName ==
    /\ \E text \in NameTyped : name' = text
    /\ UNCHANGED <<avatar, email, password, confirmPassword, techs,
                   errors, output, pending, stored, uncaught>>

ChangeEmail ==
    /\ \E text \in EmailTyped : email' = text
    /\ UNCHANGED <<avatar, name, password, confirmPassword, techs,
                   errors, output, pending, stored, uncaught>>

ChangePassword ==
    /\ \E text \in PasswordTyped : password' = text
    /\ UNCHANGED <<avatar, name, email, confirmPassword, techs,
                   errors, output, pending, stored, uncaught>>

ChangeConfirmPassword ==
    /\ \E text \in PasswordTyped : confirmPassword' = text
    /\ UNCHANGED <<avatar, name, email, password, techs,
                   errors, output, pending, stored, uncaught>>

ChangeTechTitle ==
    /\ \E index \in 1..Len(techs), text \in TitleTyped :
           techs' = [techs EXCEPT ![index].title = text]
    /\ UNCHANGED <<avatar, name, email, password, confirmPassword,
                   errors, output, pending, stored, uncaught>>

ChangeTechKnowledge ==
    /\ \E index \in 1..Len(techs), text \in KnowledgeTyped :
           techs' = [techs EXCEPT ![index].knowledge = text]
    /\ UNCHANGED <<avatar, name, email, password, confirmPassword,
                   errors, output, pending, stored, uncaught>>

\* useFieldArray's append
append(fields, value) == Append(fields, value)

\* addNewTech: the number 0 is held as the text its input shows
addNewTech ==
    /\ Len(techs) < MaxTechs
    /\ techs' = append(techs, [title |-> <<>>, knowledge |-> <<"0">>])
    /\ UNCHANGED <<avatar, name, email, password, confirmPassword,
                   errors, output, pending, stored, uncaught>>

\* JSON.stringify(data, null, 2): a File has no enumerable property of its own
JSONstringify(data) == [data EXCEPT !.avatar = "{}"]

\* createUser up to its await: the upload call it makes, and the record it keeps
createUser(data) ==
    [bucket |-> "forms-zod", key |-> data.avatar.name, body |-> data.avatar, data |-> data]

\* the values the registered inputs and the field array hold
formValues ==
    [avatar |-> avatar, name |-> name, email |-> email, password |-> password,
     confirmPassword |-> confirmPassword, techs |-> techs]

\* handleSubmit with a createUser that does not await the upload
handleSubmitNoAwait ==
    LET r == zodResolver(formValues)
    IN  \/ /\ r.kind = "throw"
           /\ uncaught' = TRUE
           /\ UNCHANGED <<form, errors, output, pending, stored>>
        \/ /\ r.kind = "invalid"
           /\ errors' = r.errors
           /\ UNCHANGED <<form, output, pending, stored, uncaught>>
        \/ /\ r.kind = "valid"
           /\ Len(pending) < MaxPending
           /\ errors' = <<>>
           /\ pending' = Append(pending, createUser(r.values))
           /\ output' = <<JSONstringify(r.values)>>
           /\ UNCHANGED <<form, stored, uncaught>>

\* handleSubmit that runs createUser on the parsed record whatever the issues
handleSubmitUnchecked ==
    LET r == zodResolver(formValues)
    IN  \/ /\ r.kind = "throw"
           /\ uncaught' = TRUE
           /\ UNCHANGED <<form, errors, output, pending, stored>>
        \/ /\ r.kind # "throw"
           /\ Len(pending) < MaxPending
           /\ errors' = IF r.kind = "invalid" THEN r.errors ELSE <<>>
           /\ pending' = Append(pending, createUser(createUserFormSchema(formValues).value))
           /\ UNCHANGED <<form, output, stored, uncaught>>

\* handleSubmit(createUser): validation and the call of createUser run in one
\* turn of the event loop; an exception of the resolver escapes the handler
handleSubmit ==
    LET r == zodResolver(formValues)
    IN  \/ /\ r.kind = "throw"
           /\ uncaught' = TRUE
           /\ UNCHANGED <<form, errors, output, pending, stored>>
        \/ /\ r.kind = "invalid"
           /\ errors' = r.errors
           /\ UNCHANGED <<form, output, pending, stored, uncaught>>
        \/ /\ r.kind = "valid"
           /\ Len(pending) < MaxPending
           /\ errors' = <<>>
           /\ pending' = Append(pending, createUser(r.values))
           /\ UNCHANGED <<form, output, stored, uncaught>>

\* setOutput only when the upload succeeded
shownOnSuccess(call, result) ==
    IF result = "ok" THEN <<JSONstringify(call.data)>> ELSE output

\* the text createUser sets once its await is over
shown(call, result) == <<JSONstringify(call.data)>>

\* a sequence without its i-th element
without(seq, i) == [j \in 1..(Len(seq) - 1) |-> IF j < i THEN seq[j] ELSE seq[j + 1]]

\* an upload call returns, with a result createUser does not look at;
\* createUser resumes and sets the output
uploadReturns ==
    \E i \in 1..Len(pending), result \in {"ok", "error"} :
        /\ output' = shown(pending[i], result)
        /\ stored' = IF result = "ok" THEN stored \cup {pending[i].key} ELSE stored
        /\ pending' = without(pending, i)
        /\ UNCHANGED <<form, errors, uncaught>>

Next ==
    \/ ChangeAvatar
    \/ ChangeName
    \/ ChangeEmail
    \/ ChangePassword
    \/ ChangeConfirmPassword
    \/ ChangeTechTitle
    \/ ChangeTechKnowledge
    \/ addNewTech
    \/ handleSubmit
    \/ uploadReturns

Spec == Init /\ [][Next]_vars

----------------------------------------------------------------------------
(* The schema on its own: every form the inputs below can make is submitted *)

MaxNameLen == 4    \* longest name text tried

FILE_SMALL == [name |-> "c.png", size |-> FIVE_MB - 1]

AvatarInputs == {<<>>, <<FILE_SMALL>>, <<FILE_OK>>, <<FILE_BIG>>}
NameInputs == UNION {[1..k -> {" ", "a"}] : k \in 0..MaxNameLen}
EmailInputs ==
    { <<>>,
      <<"a">>,
      <<"g", "m", "a", "i", "l", ".", "c", "o", "m">>,
      <<"@", "g", "m", "a", "i", "l", ".", "c", "o", "m">>,
      <<"a", "@", "b", ".", "c", "o">>,
      <<"a", "@", "g", "m", "a", "i", "l", ".", "c", "o">>,
      <<"a", "@", "g", "m", "a", "i", "l", ".", "c", "o", "m", "m">>,
      <<"a", "@", "g", "m", "a", "i", "l", ".", "c", "o", "m">>,
      <<"A", "@", "G", "M", "A", "I", "L", ".", "C", "O", "M">> }
PasswordInputs == { <<"a", "b", "c", "d", "e">>, <<"a", "b", "c", "d", "e", "f">> }
ConfirmInputs == { <<>>, <<"a", "b", "c", "d", "e">>, <<"a", "b", "c", "d", "e", "f">> }
TechInputs == { [title |-> <<>>, knowledge |-> <<"0">>],
                [title |-> <<"t", "s">>, knowledge |-> <<>>],
                [title |-> <<"t", "s">>, knowledge |-> <<"1", "0">>] }
TechsInputs == UNION {[1..k -> TechInputs] : k \in 0..MaxTechs}

SchemaInit ==
    /\ avatar \in AvatarInputs
    /\ name \in NameInputs
    /\ email \in EmailInputs
    /\ password \in PasswordInputs
    /\ confirmPassword \in ConfirmInputs
    /\ techs \in TechsInputs
    /\ errors = <<>>
    /\ output = <<>>
    /\ pending = <<>>
    /\ stored = {}
    /\ uncaught = FALSE

SchemaNext ==
    \/ handleSubmit
    \/ uploadReturns

SchemaSpec == SchemaInit /\ [][SchemaNext]_vars

----------------------------------------------------------------------------
(* Properties *)

\* the outcome of validating the present form values
outcome == zodResolver(formValues).kind

MSG_PASSWORDS == "As senhas não são idênticas"
MSG_TECHS == "Insira pelo menos 2 tecnologias"
MSG_GOOGLE == "O e-mail precisa ser do Google"

\* errors'[path] is the message
Reports(path, message) == path \in DOMAIN errors' /\ errors'[path] = message

\* C1: createUser is never run with a record whose confirmPassword differs from
\* password, and every submit with confirmPassword # password makes no upload
\* call and puts "As senhas não são idênticas" on the confirmPassword field.
C1_PasswordsMatch ==
    [][ /\ \A i \in 1..Len(pending') :
               pending'[i].data.confirmPassword = pending'[i].data.password
        /\ (handleSubmit /\ confirmPassword # password) =>
               /\ pending' = pending
               /\ Reports(<<"confirmPassword">>, MSG_PASSWORDS) ]_vars

\* C1, the part that holds: no record createUser was run with has a
\* confirmPassword that differs from its password.
C1_Safety ==
    \A i \in 1..Len(pending) : pending[i].data.confirmPassword = pending[i].data.password

\* C1, apart from the submits whose validation throws: the message is put on
\* the confirmPassword field and no upload call is made.
C1_UnlessThrown ==
    [][ (handleSubmit /\ outcome # "throw" /\ confirmPassword # password) =>
            /\ pending' = pending
            /\ Reports(<<"confirmPassword">>, MSG_PASSWORDS) ]_vars

\* C2: createUser is run only on records with at least 2 techs, and every submit
\* with 0 or 1 rows makes no upload call and puts "Insira pelo menos 2
\* tecnologias" on the techs list.
C2_TwoTechs ==
    [][ /\ \A i \in 1..Len(pending') : Len(pending'[i].data.techs) >= 2
        /\ (handleSubmit /\ Len(techs) < 2) =>
               /\ pending' = pending
               /\ Reports(<<"techs">>, MSG_TECHS) ]_vars

\* C2, the part that holds: every record createUser was run with has 2 techs
\* or more.
C2_Safety ==
    \A i \in 1..Len(pending) : Len(pending[i].data.techs) >= 2

\* C2, apart from the submits whose validation throws: the list-level message
\* is put on techs and no upload call is made.
C2_UnlessThrown ==
    [][ (handleSubmit /\ outcome # "throw" /\ Len(techs) < 2) =>
            /\ pending' = pending
            /\ Reports(<<"techs">>, MSG_TECHS) ]_vars

\* C3: every record passed to createUser has the lowercased email, which ends
\* with "@gmail.com"; a submit puts "O e-mail precisa ser do Google" on the
\* email field exactly when the lowercased email is well-formed and does not
\* end with "@gmail.com".
C3_GoogleEmail ==
    [][ /\ \A i \in 1..Len(pending') : endsWith(pending'[i].data.email, GMAIL)
        /\ handleSubmit =>
               /\ Reports(<<"email">>, MSG_GOOGLE)
                     <=> (isEmail(toLowerCase(email)) /\ ~endsWith(toLowerCase(email), GMAIL))
               /\ pending' # pending =>
                     pending'[Len(pending')].data.email = toLowerCase(email) ]_vars

\* C3, the part that holds: the email of every record createUser was run with
\* is in lower case and ends with "@gmail.com".
C3_Safety ==
    \A i \in 1..Len(pending) :
        /\ endsWith(pending[i].data.email, GMAIL)
        /\ \A k \in 1..Len(pending[i].data.email) : pending[i].data.email[k] \notin Uppers

\* C3, apart from the submits whose validation throws: the Google message is
\* on the email field exactly for the well-formed emails of another domain.
C3_UnlessThrown ==
    [][ (handleSubmit /\ outcome # "throw") =>
            (Reports(<<"email">>, MSG_GOOGLE)
                <=> (isEmail(toLowerCase(email)) /\ ~endsWith(toLowerCase(email), GMAIL))) ]_vars

\* C4: every file passed to the upload call has at most 5242880 bytes, and a
\* submit whose selected file is larger makes no upload call and puts an error
\* on the avatar field.
C4_AvatarSize ==
    [][ /\ \A i \in 1..Len(pending') : pending'[i].body.size <= 5242880
        /\ (handleSubmit /\ avatar # <<>> /\ avatar[1].size > 5242880) =>
               /\ pending' = pending
               /\ <<"avatar">> \in DOMAIN errors' ]_vars

\* C4, the part that holds: every file in an upload call has at most 5242880
\* bytes.
C4_Safety ==
    \A i \in 1..Len(pending) : pending[i].body.size <= 5242880

\* C4, apart from the submits whose validation throws: a file is rejected with
\* an error on the avatar field exactly when it has more than 5242880 bytes.
C4_UnlessThrown ==
    [][ (handleSubmit /\ outcome # "throw") =>
            /\ avatar[1].size > 5242880 => pending' = pending
            /\ avatar[1].size > 5242880 <=> <<"avatar">> \in DOMAIN errors' ]_vars

\* C5: validation never throws: no submit ends in an exception raised by a
\* transform or a refinement of the schema.
C5_NeverThrows == uncaught = FALSE

\* C5, what throws: a submit ends in an exception exactly when no file is
\* selected or the trimmed name has an empty word (it is blank, or has two
\* spaces in a row inside).
C5_WhatThrows ==
    [][ handleSubmit =>
            ((uncaught' /\ UNCHANGED <<form, errors, output, pending, stored>>)
                <=> \/ avatar = <<>>
                    \/ /\ name # <<>>
                       /\ \/ \A i \in 1..Len(name) : name[i] = " "
                          \/ \E i \in 1..(Len(trim(name)) - 1) :
                                 trim(name)[i] = " " /\ trim(name)[i + 1] = " ") ]_vars

\* C6: a submit that passes validation makes exactly one upload call, to bucket
\* "forms-zod" with the avatar's name as key and the avatar as body, and leaves
\* the output as it is; the output changes only when an upload call returns,
\* and then to the JSON of the record that call was made for.
C6_UploadThenOutput ==
    [][ /\ (handleSubmit /\ outcome = "valid") =>
               /\ Len(pending') = Len(pending) + 1
               /\ SubSeq(pending', 1, Len(pending)) = pending
               /\ pending'[Len(pending')].bucket = "forms-zod"
               /\ pending'[Len(pending')].key = avatar[1].name
               /\ pending'[Len(pending')].body = avatar[1]
               /\ pending'[Len(pending')].data = createUserFormSchema(formValues).value
               /\ output' = output
        /\ output' # output =>
               \E i \in 1..Len(pending) :
                   /\ pending' = without(pending, i)
                   /\ output' = <<JSONstringify(pending[i].data)>> ]_vars

\* C6 witness: the output shows the record of a completed upload while the
\* upload of a later accepted submit, of another record, is still in flight.
C6_Witness ==
    /\ output # <<>>
    /\ pending # <<>>
    /\ output # <<JSONstringify(pending[1].data)>>

\* C7: a submit that does not pass validation makes no upload call and leaves
\* the output, the bucket and the form values as they are; the output is empty
\* until an upload call has returned.
C7_RejectedSubmit ==
    [][ /\ (handleSubmit /\ outcome # "valid") =>
               UNCHANGED <<form, output, pending, stored>>
        /\ (output = <<>> /\ output' # <<>>) => Len(pending') < Len(pending) ]_vars

\* C7 witness: a submit was rejected with messages, no upload was ever made
\* and the output is still empty.
C7_Witness ==
    /\ errors # <<>>
    /\ outcome = "invalid"
    /\ errors = zodResolver(formValues).errors
    /\ output = <<>>
    /\ pending = <<>>
    /\ stored = {}

\* C8: from every form state with at least one tech row a step is possible
\* that makes the techs list shorter.
C8_RemoveAvailable ==
    Len(techs) >= 1 => ENABLED (Next /\ Len(techs') < Len(techs))

\* C8, what the code does: no step makes the techs list shorter.
C8_NeverShorter == [][Len(techs') >= Len(techs)]_vars

\* C9: at most one upload call is in flight at any time.
C9_OneUpload == Len(pending) <= 1

\* C10: whenever an upload call returns, whatever its result, the output
\* becomes the JSON of that call's record, and nothing records a failure:
\* errors and the uncaught flag stay as they are.
C10_OutputWhateverResult ==
    [][ Len(pending') < Len(pending) =>
            \E i \in 1..Len(pending) :
                /\ pending' = without(pending, i)
                /\ output' = <<JSONstringify(pending[i].data)>>
                /\ UNCHANGED <<errors, uncaught>> ]_vars

\* C10 witness: the output was set although no upload ever succeeded.
C10_Witness ==
    /\ output # <<>>
    /\ stored = {}
    /\ pending = <<>>

====
